---- MODULE Spec2Model ----
(***************************************************************************)
(* Instruction codec and builders of the SPL name service and memo         *)
(* clients (spl/name_service/name_program.py, spl/name_service/_layouts.py,*)
(* src/memo/memo_program.py).  Every builder and decoder is a pure         *)
(* function; the state machine applies them to inputs drawn from bounded   *)
(* sets and records the call and its outcome (an instruction, decoded      *)
(* params, or the exception class that was raised).                        *)
(***************************************************************************)
EXTENDS Integers, Sequences, FiniteSets, TLC

VARIABLES
    op,            \* the call the caller makes
    params,        \* its argument
    instruction,   \* what a builder returned (or the instruction received)
    decoded,       \* what a decoder returned
    codec,         \* what a direct call of the layout's build or parse returned
    curve,         \* which byte strings decompress to a point of the curve
    search,        \* the address deriver's bump search in progress
    history,       \* the derive calls that have returned, in order
    threads        \* the calls several threads are making at once

vars == <<op, params, instruction, decoded, codec, curve, search, history, threads>>

(***************************************************************************)
(* Bounds of the model.                                                    *)
(***************************************************************************)
\* sample key-pair addresses Key(1) .. Key(NumKeys) for the accounts every
\* operation takes (funding, owner, name account, signer)
NumKeys == 2
\* longest input_data / memo message drawn
MaxDataLen == 2

(***************************************************************************)
(* Python values.                                                          *)
(* bytes: a sequence over 0..255.  int: sign and magnitude, the magnitude  *)
(* as base-256 digits, least significant first, without leading zeros      *)
(* (Python ints are unbounded; the fields they are packed into are not).   *)
(***************************************************************************)
None == <<>>

RECURSIVE Strip(_)
Strip(m) == IF m = <<>> THEN <<>>
            ELSE IF m[Len(m)] = 0 THEN Strip(SubSeq(m, 1, Len(m) - 1))
            ELSE m

RECURSIVE Digits(_)
Digits(n) == IF n = 0 THEN <<>> ELSE <<n % 256>> \o Digits(n \div 256)

PyInt(n) == IF n >= 0 THEN [neg |-> FALSE, mag |-> Digits(n)]
            ELSE [neg |-> TRUE, mag |-> Digits(-n)]

Zeros(n) == [i \in 1..n |-> 0]

\* magnitude + k, for a small natural k
RECURSIVE AddMag(_, _)
AddMag(m, k) ==
    IF k = 0 THEN m
    ELSE IF m = <<>> THEN Digits(k)
    ELSE <<(m[1] + k) % 256>> \o AddMag(Tail(m), (m[1] + k) \div 256)

\* magnitude - k, for a small natural k not above the magnitude
RECURSIVE SubMag(_, _)
SubMag(m, k) ==
    IF k = 0 THEN m
    ELSE IF m[1] >= k % 256
         THEN <<m[1] - (k % 256)>> \o SubMag(Tail(m), k \div 256)
         ELSE <<m[1] + 256 - (k % 256)>> \o SubMag(Tail(m), (k \div 256) + 1)

\* the magnitude as a number, when it has at most two digits
Small(m) == IF m = <<>> THEN 0
            ELSE IF Len(m) = 1 THEN m[1]
            ELSE m[1] + 256 * m[2]

\* Python's x + k for an int x and a small natural k
PyAdd(x, k) ==
    IF ~x.neg THEN [neg |-> FALSE, mag |-> AddMag(x.mag, k)]
    ELSE IF Len(x.mag) <= 2 /\ Small(x.mag) <= k
         THEN [neg |-> FALSE, mag |-> Digits(k - Small(x.mag))]
         ELSE [neg |-> TRUE, mag |-> Strip(SubMag(x.mag, k))]

(***************************************************************************)
(* Registry constants.                                                     *)
(***************************************************************************)
Key(k) == [i \in 1..32 |-> k]

SYS_PROGRAM_ID == Key(0)

DEVNET_NAME_PROGRAM_ID ==
    <<233, 40, 79, 112, 78, 155, 104, 69, 235, 221, 142, 252, 158, 190, 202, 176,
      153, 13, 208, 73, 198, 106, 41, 142, 50, 16, 25, 96, 8, 246, 128, 105>>

MAINNET_NAME_PROGRAM_ID ==
    <<11, 173, 81, 244, 19, 193, 243, 169, 148, 96, 217, 0, 216, 191, 46, 214,
      146, 126, 202, 52, 215, 183, 132, 43, 248, 16, 169, 115, 8, 45, 30, 220>>

MEMO_PROGRAM == Key(77)

REQ_INITIAL_ACCOUNT_BUFFER == 96

CREATE == 0
UPDATE == 1
TRANSFER == 2
DELETE == 3

(***************************************************************************)
(* construct primitives.  A build or a parse either succeeds or raises;    *)
(* err is the exception class.                                             *)
(***************************************************************************)
Built(b) == [ok |-> TRUE, err |-> "", bytes |-> b]

Raised(e) == [ok |-> FALSE, err |-> e, bytes |-> <<>>]

\* Struct builds its fields in order; the first failure propagates
Seq2(r1, r2) == IF ~r1.ok THEN r1
                ELSE IF ~r2.ok THEN r2
                ELSE Built(r1.bytes \o r2.bytes)

\* unsigned little-endian integer of w bytes: struct.pack rejects a value
\* that is negative or needs more than w bytes
IntUl_build(w, x) ==
    IF x.neg \/ Len(x.mag) > w THEN Raised("FormatFieldError")
    ELSE Built(x.mag \o Zeros(w - Len(x.mag)))

IntUl_parse(b) == [neg |-> FALSE, mag |-> Strip(b)]

Byte_build(n) == IF n < 0 \/ n > 255 THEN Raised("FormatFieldError") ELSE Built(<<n>>)

\* Bytes(n): the value must have exactly n bytes
\* a Bytes field that writes whatever it is given
Bytes_build_any(n, v) == Built(v)

Bytes_build(n, v) == IF Len(v) # n THEN Raised("StreamError") ELSE Built(v)

\* Bytes(this.size): the length is the value of the size field
BytesOf_build(size, v) == IF PyInt(Len(v)) # size THEN Raised("StreamError") ELSE Built(v)

PUBLIC_KEY_LAYOUT_build(v) == Bytes_build(32, v)

(***************************************************************************)
(* Layouts of the name program instructions.                               *)
(***************************************************************************)
_CREATE_LAYOUT_build(args) ==
    Seq2(IntUl_build(4, args.hashed_name_size),
    Seq2(Bytes_build(32, args.hashed_name),
    Seq2(IntUl_build(8, args.lamports),
         IntUl_build(4, args.space))))

_UPDATE_LAYOUT_build(args) ==
    Seq2(IntUl_build(4, args.offset),
    Seq2(IntUl_build(4, args.size),
         BytesOf_build(args.size, args.input_data)))

_TRANSFER_LAYOUT_build(args) == PUBLIC_KEY_LAYOUT_build(args.new_owner)

_DELETE_LAYOUT_build(args) == Built(<<>>)

\* Switch without a default: an unlisted key selects Pass, which builds nothing
Switch_build(type, args) ==
    CASE type = CREATE -> _CREATE_LAYOUT_build(args)
      [] type = UPDATE -> _UPDATE_LAYOUT_build(args)
      [] type = TRANSFER -> _TRANSFER_LAYOUT_build(args)
      [] type = DELETE -> _DELETE_LAYOUT_build(args)
      [] OTHER -> Built(<<>>)

NAME_PROGRAM_INSTRUCTIONS_LAYOUT_build(obj) ==
    Seq2(Byte_build(obj.instruction_type), Switch_build(obj.instruction_type, obj.args))

Parsed(type, args) == [ok |-> TRUE, err |-> "", instruction_type |-> type, args |-> args]

ParseRaised(e) == [ok |-> FALSE, err |-> e, instruction_type |-> -1, args |-> [layout |-> "None"]]

\* b is the buffer after the discriminant; a parse reads its fields in order
\* and raises StreamError at the first one the buffer is too short for
_CREATE_LAYOUT_parse(b) ==
    IF Len(b) < 4 + 32 + 8 + 4 THEN ParseRaised("StreamError")
    ELSE Parsed(CREATE,
                [layout |-> "create",
                 hashed_name_size |-> IntUl_parse(SubSeq(b, 1, 4)),
                 hashed_name |-> SubSeq(b, 5, 36),
                 lamports |-> IntUl_parse(SubSeq(b, 37, 44)),
                 space |-> IntUl_parse(SubSeq(b, 45, 48))])

\* a parse that takes the rest of the buffer for input_data
_UPDATE_LAYOUT_parse_greedy(b) ==
    IF Len(b) < 8 THEN ParseRaised("StreamError")
    ELSE Parsed(UPDATE,
                [layout |-> "update",
                 offset |-> IntUl_parse(SubSeq(b, 1, 4)),
                 size |-> IntUl_parse(SubSeq(b, 5, 8)),
                 input_data |-> SubSeq(b, 9, Len(b))])

_UPDATE_LAYOUT_parse(b) ==
    IF Len(b) < 8 THEN ParseRaised("StreamError")
    ELSE LET offset == IntUl_parse(SubSeq(b, 1, 4))
             size == IntUl_parse(SubSeq(b, 5, 8))
         IN  IF Len(size.mag) > 2 \/ Len(b) < 8 + Small(size.mag)
             THEN ParseRaised("StreamError")
             ELSE Parsed(UPDATE,
                         [layout |-> "update",
                          offset |-> offset,
                          size |-> size,
                          input_data |-> SubSeq(b, 9, 8 + Small(size.mag))])

\* a parse that fills what the buffer lacks with zero bytes
_TRANSFER_LAYOUT_parse_padded(b) ==
    Parsed(TRANSFER,
           [layout |-> "transfer",
            new_owner |-> [i \in 1..32 |-> IF i <= Len(b) THEN b[i] ELSE 0]])

_TRANSFER_LAYOUT_parse(b) ==
    IF Len(b) < 32 THEN ParseRaised("StreamError")
    ELSE Parsed(TRANSFER, [layout |-> "transfer", new_owner |-> SubSeq(b, 1, 32)])

_DELETE_LAYOUT_parse(b) == Parsed(DELETE, [layout |-> "delete"])

NAME_PROGRAM_INSTRUCTIONS_LAYOUT_parse(data) ==
    IF Len(data) < 1 THEN ParseRaised("StreamError")
    ELSE LET type == data[1]
             b == Tail(data)
         IN  CASE type = CREATE -> _CREATE_LAYOUT_parse(b)
               [] type = UPDATE -> _UPDATE_LAYOUT_parse(b)
               [] type = TRANSFER -> _TRANSFER_LAYOUT_parse(b)
               [] type = DELETE -> _DELETE_LAYOUT_parse(b)
               [] OTHER -> Parsed(type, [layout |-> "None"])

(***************************************************************************)
(* Hashing and address derivation.  sha256 and the curve test stand for    *)
(* hashlib and the Ed25519 decompression: a position-sensitive digest and  *)
(* a predicate that holds of about half of the digests.  Which byte        *)
(* strings decompress is a fact of the curve, fixed for a behaviour:       *)
(* "sample" is the stand-in, "dense" lets most digests decompress, "every" *)
(* and "never" are the extremes (with "every" no bump is acceptable).      *)
(***************************************************************************)
\* (the halves' midpoint, the folded value and the buffer are bound by a
\* one-element set, which fixes each value once where an operator argument
\* is re-evaluated at every use inside ENABLED)
RECURSIVE Mix(_, _, _)
Mix(b, lo, hi) ==
    IF lo > hi THEN 0
    ELSE IF lo = hi THEN (lo * (b[lo] + 1)) % 65521
    ELSE CHOOSE m \in {(Mix(b, lo, mid) * 31 + Mix(b, mid + 1, hi)) % 65521 :
                           mid \in {(lo + hi) \div 2}} : TRUE

Digest(h) ==
    CHOOSE d \in {[j \in 1..32 |-> (v + (j - 1) * ((v \div 256) + 1)) % 256] : v \in {h}} : TRUE

sha256(b) == CHOOSE d \in {Digest(Mix(v, 1, Len(v))) : v \in {b}} : TRUE

is_on_curve(d) ==
    CASE curve = "sample" -> d[1] % 2 = 0
      [] curve = "dense" -> d[1] % 16 # 0
      [] curve = "every" -> TRUE
      [] curve = "never" -> FALSE

get_hashed_name(hash_prefix, name) == sha256(hash_prefix \o name)

RECURSIVE Concat(_)
Concat(ss) == IF ss = <<>> THEN <<>> ELSE Head(ss) \o Concat(Tail(ss))

PROGRAM_DERIVED_ADDRESS ==
    <<80, 114, 111, 103, 114, 97, 109, 68, 101, 114, 105,
      118, 101, 100, 65, 100, 100, 114, 101, 115, 115>>

\* seeds, bump byte, program id and the domain separator, in this order
hash_input(seeds, bump, program_id) ==
    Concat(seeds) \o <<bump>> \o program_id \o PROGRAM_DERIVED_ADDRESS

\* the digest of that input
candidate(seeds, bump, program_id) == sha256(hash_input(seeds, bump, program_id))

\* the first bump, trying hi, hi - 1, ..., lo in this order, whose candidate
\* is off the curve, or -1 when there is none (the range is halved, upper
\* half first, so that the evaluation stays shallow)
RECURSIVE first_off_curve(_, _, _, _)
first_off_curve(seeds, program_id, lo, hi) ==
    IF lo = hi
    THEN IF is_on_curve(candidate(seeds, hi, program_id)) THEN -1 ELSE hi
    ELSE LET mid == (lo + hi) \div 2
             upper == first_off_curve(seeds, program_id, mid + 1, hi)
         IN  IF upper >= 0 THEN upper
             ELSE first_off_curve(seeds, program_id, lo, mid)

\* the search from bump downwards
bump_search(seeds, program_id, bump) ==
    LET exhausted == [ok |-> FALSE, err |-> "DerivationExhausted", address |-> None,
                      bump |-> -1]
        found == first_off_curve(seeds, program_id, 0, bump)
    IN  IF bump < 0 THEN exhausted
        ELSE IF found < 0 THEN exhausted
        ELSE [ok |-> TRUE, err |-> "", address |-> candidate(seeds, found, program_id),
              bump |-> found]

find_program_address(seeds, program_id) == bump_search(seeds, program_id, 255)

(***************************************************************************)
(* Instructions and the outcome of a call.                                 *)
(***************************************************************************)
AccountMeta(pubkey, is_signer, is_writable) ==
    [pubkey |-> pubkey, is_signer |-> is_signer, is_writable |-> is_writable]

TransactionInstruction(keys, program_id, data) ==
    [status |-> "ok", error |-> "", keys |-> keys, program_id |-> program_id, data |-> data]

Raise(e) == [status |-> "raised", error |-> e, keys |-> <<>>, program_id |-> None, data |-> <<>>]

NoInstruction == [status |-> "none", error |-> "", keys |-> <<>>, program_id |-> None, data |-> <<>>]

NoParams == [none |-> TRUE]

NotDecoded == [by |-> "none", status |-> "none", error |-> "", params |-> NoParams]

Returned(by, p) == [by |-> by, status |-> "ok", error |-> "", params |-> p]

DecodeRaised(by, e) == [by |-> by, status |-> "raised", error |-> e, params |-> NoParams]

(***************************************************************************)
(* Param structs, with their defaults.                                     *)
(***************************************************************************)
CreateNameParams(funding_account, hashed_name, lamports, space, owner_account, class_account, parent_account, parent_owner_account, name_program_id) ==
    [funding_account |-> funding_account, hashed_name |-> hashed_name,
     lamports |-> lamports, space |-> space, owner_account |-> owner_account,
     class_account |-> class_account, parent_account |-> parent_account,
     parent_owner_account |-> parent_owner_account, name_program_id |-> name_program_id]

UpdateNameParams(name_account, offset, input_data, name_update_signer, name_program_id) ==
    [name_account |-> name_account, offset |-> offset, input_data |-> input_data,
     name_update_signer |-> name_update_signer, name_program_id |-> name_program_id]

TransferNameParams(name_account, new_owner_account, owner_account, class_account, name_program_id) ==
    [name_account |-> name_account, new_owner_account |-> new_owner_account,
     owner_account |-> owner_account, class_account |-> class_account,
     name_program_id |-> name_program_id]

DeleteNameParams(name_account, owner_account, refund_account, name_program_id) ==
    [name_account |-> name_account, owner_account |-> owner_account,
     refund_account |-> refund_account, name_program_id |-> name_program_id]

MemoParams(signer, message, memo_program_id) ==
    [signer |-> signer, message |-> message, memo_program_id |-> memo_program_id]

(***************************************************************************)
(* name_program.py: create_name and its decoder.                           *)
(***************************************************************************)
create_name_data(p) ==
    NAME_PROGRAM_INSTRUCTIONS_LAYOUT_build(
        [instruction_type |-> CREATE,
         args |-> [hashed_name_size |-> PyInt(Len(p.hashed_name)),
                   hashed_name |-> p.hashed_name,
                   lamports |-> p.lamports,
                   space |-> PyAdd(p.space, REQ_INITIAL_ACCOUNT_BUFFER)]])

\* seeds with the class account first
create_name_seeds_swapped(p) == <<p.class_account, p.hashed_name, p.parent_account>>

create_name_seeds(p) == <<p.hashed_name, p.class_account, p.parent_account>>

\* mutant: the class account is never marked as a signer
create_name_keys_class_unsigned(p, name_record_pubkey) ==
    <<AccountMeta(SYS_PROGRAM_ID, FALSE, FALSE),
      AccountMeta(p.funding_account, TRUE, TRUE),
      AccountMeta(name_record_pubkey, FALSE, TRUE),
      AccountMeta(IF p.owner_account # None THEN p.owner_account ELSE p.funding_account,
                  FALSE, FALSE),
      AccountMeta(p.class_account, FALSE, FALSE),
      AccountMeta(p.parent_account, FALSE, FALSE)>>
    \o (IF p.parent_account # SYS_PROGRAM_ID
        THEN <<AccountMeta(p.parent_owner_account, TRUE, FALSE)>>
        ELSE <<>>)

create_name_keys(p, name_record_pubkey) ==
    <<AccountMeta(SYS_PROGRAM_ID, FALSE, FALSE),
      AccountMeta(p.funding_account, TRUE, TRUE),
      AccountMeta(name_record_pubkey, FALSE, TRUE),
      AccountMeta(IF p.owner_account # None THEN p.owner_account ELSE p.funding_account,
                  FALSE, FALSE)>>
    \o (IF p.class_account # SYS_PROGRAM_ID
        THEN <<AccountMeta(p.class_account, TRUE, FALSE)>>
        ELSE <<AccountMeta(p.class_account, FALSE, FALSE)>>)
    \o <<AccountMeta(p.parent_account, FALSE, FALSE)>>
    \o (IF p.parent_account # SYS_PROGRAM_ID
        THEN <<AccountMeta(p.parent_owner_account, TRUE, FALSE)>>
        ELSE <<>>)

create_name(p) ==
    LET data == create_name_data(p)
    IN  IF ~data.ok THEN Raise(data.err)
        ELSE LET pda == find_program_address(create_name_seeds(p), p.name_program_id)
             IN  IF ~pda.ok THEN Raise(pda.err)
                 ELSE IF p.parent_account # SYS_PROGRAM_ID
                         /\ p.parent_owner_account = SYS_PROGRAM_ID
                      THEN Raise("ValueError")
                      ELSE TransactionInstruction(create_name_keys(p, pda.address),
                                                  p.name_program_id, data.bytes)

validate_instruction_keys(ins, expected) == Len(ins.keys) = expected

validate_instruction_type(parsed, expected) == parsed.instruction_type = expected

\* the parsed container, or the exception of the first check that fails
parse_and_validate_instruction(ins, expected_keys, expected_type) ==
    IF ~validate_instruction_keys(ins, expected_keys) THEN ParseRaised("ValueError")
    ELSE LET data == NAME_PROGRAM_INSTRUCTIONS_LAYOUT_parse(ins.data)
         IN  IF ~data.ok THEN data
             ELSE IF ~validate_instruction_type(data, expected_type)
                  THEN ParseRaised("ValueError")
                  ELSE data

decode_create_name(ins) ==
    LET parsed_data == parse_and_validate_instruction(ins, 6, CREATE)
    IN  IF ~parsed_data.ok THEN DecodeRaised("decode_create_name", parsed_data.err)
        ELSE Returned("decode_create_name",
                      CreateNameParams(ins.keys[2].pubkey,
                                       parsed_data.args.hashed_name,
                                       parsed_data.args.lamports,
                                       parsed_data.args.space,
                                       None, SYS_PROGRAM_ID, SYS_PROGRAM_ID, SYS_PROGRAM_ID,
                                       ins.program_id))

(***************************************************************************)
(* name_program.py: update_name, transfer_name, delete_name.               *)
(***************************************************************************)
\* mutant: the payload without its size field (offset, then the bytes to the end)
update_name_data_no_size(p) ==
    Seq2(Byte_build(UPDATE), Seq2(IntUl_build(4, p.offset), Built(p.input_data)))

update_name_data(p) ==
    NAME_PROGRAM_INSTRUCTIONS_LAYOUT_build(
        [instruction_type |-> UPDATE,
         args |-> [offset |-> p.offset,
                   size |-> PyInt(Len(p.input_data)),
                   input_data |-> p.input_data]])

\* an update nobody has to sign
update_name_keys_unsigned(p) ==
    <<AccountMeta(p.name_account, FALSE, TRUE),
      AccountMeta(p.name_update_signer, FALSE, FALSE)>>

update_name_keys(p) ==
    <<AccountMeta(p.name_account, FALSE, TRUE),
      AccountMeta(p.name_update_signer, TRUE, FALSE)>>

update_name(p) ==
    LET data == update_name_data(p)
    IN  IF ~data.ok THEN Raise(data.err)
        ELSE TransactionInstruction(update_name_keys(p), p.name_program_id, data.bytes)

transfer_name_data(p) ==
    NAME_PROGRAM_INSTRUCTIONS_LAYOUT_build(
        [instruction_type |-> TRANSFER, args |-> [new_owner |-> p.new_owner_account]])

\* line 170 reads params.params.class_account: the params tuple has no
\* attribute params, so the append raises AttributeError
transfer_name(p) ==
    LET data == transfer_name_data(p)
        keys == <<AccountMeta(p.name_account, FALSE, TRUE),
                  AccountMeta(p.owner_account, TRUE, FALSE)>>
    IN  IF ~data.ok THEN Raise(data.err)
        ELSE IF p.class_account # SYS_PROGRAM_ID THEN Raise("AttributeError")
        ELSE TransactionInstruction(keys, p.name_program_id, data.bytes)

delete_name_data(p) ==
    NAME_PROGRAM_INSTRUCTIONS_LAYOUT_build([instruction_type |-> DELETE, args |-> [none |-> TRUE]])

\* mutant: the refund account is not defaulted to the owner
delete_name_keys_no_default(p) ==
    <<AccountMeta(p.name_account, FALSE, TRUE),
      AccountMeta(p.owner_account, TRUE, FALSE),
      AccountMeta(p.refund_account, FALSE, TRUE)>>

delete_name_keys(p) ==
    LET refund_account == IF p.refund_account # None THEN p.refund_account
                          ELSE p.owner_account
    IN  <<AccountMeta(p.name_account, FALSE, TRUE),
          AccountMeta(p.owner_account, TRUE, FALSE),
          AccountMeta(refund_account, FALSE, TRUE)>>

delete_name(p) ==
    LET data == delete_name_data(p)
    IN  IF ~data.ok THEN Raise(data.err)
        ELSE TransactionInstruction(delete_name_keys(p), p.name_program_id, data.bytes)

(***************************************************************************)
(* memo_program.py.                                                        *)
(***************************************************************************)
memo_instruction_keys(p) == <<AccountMeta(p.signer, TRUE, TRUE)>>

\* mutant: the message behind a one-byte length prefix
memo_instruction_prefixed(p) ==
    TransactionInstruction(memo_instruction_keys(p), p.memo_program_id,
                           <<Len(p.message)>> \o p.message)

memo_instruction(p) ==
    TransactionInstruction(memo_instruction_keys(p), p.memo_program_id, p.message)

\* instruction.keys[1] is the second entry of the list
decode_memo_instruction(ins) ==
    IF Len(ins.keys) < 2 THEN DecodeRaised("decode_memo_instruction", "IndexError")
    ELSE Returned("decode_memo_instruction",
                  MemoParams(ins.keys[2].pubkey, ins.data, ins.program_id))

(***************************************************************************)
(* Inputs.                                                                 *)
(***************************************************************************)
Keys == {Key(k) : k \in 1..NumKeys}

\* the optional accounts: the default address or a key of their own
OptionalKeys == {SYS_PROGRAM_ID, Key(9)}

ProgramIds == {DEVNET_NAME_PROGRAM_ID, MAINNET_NAME_PROGRAM_ID}

Names == {<<97>>, <<98, 99>>}

HashedNames == {get_hashed_name(<<>>, n) : n \in Names}

\* byte strings that are not 32 bytes long
WrongLengthNames == {SubSeq(get_hashed_name(<<>>, <<97>>), 1, 31),
                     get_hashed_name(<<>>, <<97>>) \o <<0>>}

U32_MAX == [neg |-> FALSE, mag |-> <<255, 255, 255, 255>>]

U64_MAX == [neg |-> FALSE, mag |-> <<255, 255, 255, 255, 255, 255, 255, 255>>]

Lamports == {PyInt(0), PyInt(123), U64_MAX, PyAdd(U64_MAX, 1)}

Spaces == {PyInt(1), PyInt(10),
           [neg |-> FALSE, mag |-> <<159, 255, 255, 255>>],
           [neg |-> FALSE, mag |-> <<160, 255, 255, 255>>],
           U32_MAX, PyAdd(U32_MAX, 1), PyInt(-1)}

Offsets == {PyInt(0), PyInt(4), U32_MAX, PyAdd(U32_MAX, 1)}

SampleBytes == {1, 2, 255}

RECURSIVE BytesUpTo(_)
BytesUpTo(n) == IF n = 0 THEN {<<>>}
                ELSE BytesUpTo(n - 1)
                     \cup {Append(b, x) : b \in {c \in BytesUpTo(n - 1) : Len(c) = n - 1},
                                          x \in SampleBytes}

Payloads == BytesUpTo(MaxDataLen)

FitsU32(x) == ~x.neg /\ Len(x.mag) <= 4

FitsU64(x) == ~x.neg /\ Len(x.mag) <= 8

CreateInputs ==
    {CreateNameParams(funding, hashed_name, lamports, space, owner,
                      class, parent, parent_owner, program_id) :
        funding \in Keys, hashed_name \in HashedNames \cup WrongLengthNames,
        lamports \in Lamports, space \in Spaces, owner \in {None} \cup Keys,
        class \in OptionalKeys, parent \in OptionalKeys, parent_owner \in OptionalKeys,
        program_id \in ProgramIds}

UpdateInputs ==
    {UpdateNameParams(name_account, offset, input_data, signer, program_id) :
        name_account \in Keys, offset \in Offsets, input_data \in Payloads,
        signer \in Keys, program_id \in ProgramIds}

TransferInputs ==
    {TransferNameParams(name_account, new_owner, owner, class, program_id) :
        name_account \in Keys, new_owner \in Keys, owner \in Keys,
        class \in OptionalKeys, program_id \in ProgramIds}

DeleteInputs ==
    {DeleteNameParams(name_account, owner, refund, program_id) :
        name_account \in Keys, owner \in Keys, refund \in {None} \cup Keys,
        program_id \in ProgramIds}

MemoInputs ==
    {MemoParams(signer, message, program_id) :
        signer \in Keys, message \in Payloads, program_id \in {MEMO_PROGRAM, Key(78)}}

Calls ==
    ({"create_name"} \X CreateInputs)
    \cup ({"update_name"} \X UpdateInputs)
    \cup ({"transfer_name"} \X TransferInputs)
    \cup ({"delete_name"} \X DeleteInputs)
    \cup ({"memo_instruction"} \X MemoInputs)

(***************************************************************************)
(* Inputs of the direct codec calls and instructions received from         *)
(* elsewhere (a decoder is not only handed what a builder of this library  *)
(* returned).                                                              *)
(***************************************************************************)
NoCodec == [call |-> "none", result |-> Raised("")]

Idle == [pc |-> "idle", seeds |-> <<>>, program_id |-> None, bump |-> 255,
         attempts |-> 0, digest |-> None, address |-> None]

SampleName == get_hashed_name(<<>>, <<97>>)

CreateObjects ==
    {[instruction_type |-> CREATE,
      args |-> [hashed_name_size |-> PyInt(Len(h)), hashed_name |-> h,
                lamports |-> l, space |-> sp]] :
        h \in {SampleName} \cup WrongLengthNames,
        l \in Lamports \cup {PyInt(-1)},
        sp \in {PyInt(10), U32_MAX, PyAdd(U32_MAX, 1), PyInt(-1)}}

UpdateObjects ==
    {[instruction_type |-> UPDATE,
      args |-> [offset |-> o, size |-> PyInt(n), input_data |-> d]] :
        o \in Offsets \cup {PyInt(-1)}, n \in 0..(MaxDataLen + 1), d \in Payloads}

TransferObjects ==
    {[instruction_type |-> TRANSFER, args |-> [new_owner |-> k]] :
        k \in {Key(1), SubSeq(Key(1), 1, 31), Key(1) \o <<1>>}}

OtherObjects ==
    {[instruction_type |-> t, args |-> [none |-> TRUE]] : t \in {DELETE, 7}}

BuildObjects == CreateObjects \cup UpdateObjects \cup TransferObjects \cup OtherObjects

CreatePayload ==
    NAME_PROGRAM_INSTRUCTIONS_LAYOUT_build(
        [instruction_type |-> CREATE,
         args |-> [hashed_name_size |-> PyInt(32), hashed_name |-> SampleName,
                   lamports |-> PyInt(123), space |-> PyInt(10)]]).bytes

UpdatePayloads ==
    {NAME_PROGRAM_INSTRUCTIONS_LAYOUT_build(
        [instruction_type |-> UPDATE,
         args |-> [offset |-> PyInt(4), size |-> PyInt(Len(d)), input_data |-> d]]).bytes :
        d \in Payloads}

TransferPayload ==
    NAME_PROGRAM_INSTRUCTIONS_LAYOUT_build(
        [instruction_type |-> TRANSFER, args |-> [new_owner |-> Key(2)]]).bytes

BasePayloads == {CreatePayload, TransferPayload, <<DELETE>>} \cup UpdatePayloads

Prefixes(b) == {SubSeq(b, 1, n) : n \in 0..Len(b)}

\* well-formed payloads, every truncation of one, payloads followed by extra
\* bytes, and buffers whose first byte is no InstructionType
Buffers ==
    UNION {Prefixes(b) : b \in BasePayloads}
    \cup {b \o t : b \in BasePayloads, t \in {<<9>>, <<1, 2>>}}
    \cup {<<t>> \o b : t \in {4, 7, 255}, b \in {<<>>, <<1, 2>>, Tail(CreatePayload)}}
    \cup {<<UPDATE, 0, 0, 0, 0, 0, 0, 1, 0>>, <<UPDATE, 0, 0, 0, 0, 0, 0, 1, 0, 5, 6>>}

CodecCalls ==
    ({"layout_build"} \X BuildObjects) \cup ({"layout_parse"} \X {[buffer |-> b] : b \in Buffers})

\* seed lists for one candidate: the seeds of create_name in several orders
\* (32 bytes each) and short seeds of unequal lengths
SeedLists ==
    {<<SampleName, Key(1), Key(2)>>, <<SampleName, Key(2), Key(1)>>,
     <<Key(1), SampleName, Key(2)>>, <<SampleName, SYS_PROGRAM_ID, SYS_PROGRAM_ID>>,
     <<<<1>>, <<2>>>>, <<<<2>>, <<1>>>>, <<<<1>>, <<1, 1>>>>, <<<<1, 1>>, <<1>>>>}

HashCalls ==
    {"create_program_address"}
        \X {[seeds |-> ss, bump |-> b, program_id |-> id] :
                ss \in SeedLists, b \in {0, 254, 255}, id \in ProgramIds}

ReceivedKeys(n) == [i \in 1..n |-> AccountMeta(Key(i), i = 2, i \in {2, 3})]

ReceivedData ==
    {CreatePayload, SubSeq(CreatePayload, 1, 48), CreatePayload \o <<9>>,
     TransferPayload, <<DELETE>>, <<UPDATE>>, <<UPDATE, 4, 0, 0, 0, 1, 0, 0, 0, 255>>,
     <<7>>, <<7>> \o Tail(CreatePayload), <<>>}

Received ==
    {TransactionInstruction(ReceivedKeys(n), DEVNET_NAME_PROGRAM_ID, d) :
        n \in 5..7, d \in ReceivedData}

(***************************************************************************)
(* The state machine.  A behaviour is one caller: it holds the params of   *)
(* one builder call, makes the call, and may hand the instruction it got   *)
(* to a decoder.                                                           *)
(***************************************************************************)
Init ==
    /\ decoded = NotDecoded
    /\ codec = NoCodec
    /\ curve = "sample"
    /\ search = Idle
    /\ history = <<>>
    /\ threads = <<>>
    /\ \/ \E c \in Calls \cup CodecCalls \cup HashCalls :
            /\ op = c[1]
            /\ params = c[2]
            /\ instruction = NoInstruction
       \/ \E i \in Received :
            /\ op = "received"
            /\ params = NoParams
            /\ instruction = i

Pending(name) == op = name /\ instruction.status = "none"

CreateName ==
    /\ Pending("create_name")
    /\ instruction' = create_name(params)
    /\ UNCHANGED <<op, params, decoded, codec, curve, search, history, threads>>

UpdateName ==
    /\ Pending("update_name")
    /\ instruction' = update_name(params)
    /\ UNCHANGED <<op, params, decoded, codec, curve, search, history, threads>>

TransferName ==
    /\ Pending("transfer_name")
    /\ instruction' = transfer_name(params)
    /\ UNCHANGED <<op, params, decoded, codec, curve, search, history, threads>>

DeleteName ==
    /\ Pending("delete_name")
    /\ instruction' = delete_name(params)
    /\ UNCHANGED <<op, params, decoded, codec, curve, search, history, threads>>

MemoInstruction ==
    /\ Pending("memo_instruction")
    /\ instruction' = memo_instruction(params)
    /\ UNCHANGED <<op, params, decoded, codec, curve, search, history, threads>>

\* a direct call of the layout codec
LayoutBuild ==
    /\ op = "layout_build"
    /\ codec.call = "none"
    /\ codec' = [call |-> "build", result |-> NAME_PROGRAM_INSTRUCTIONS_LAYOUT_build(params)]
    /\ UNCHANGED <<op, params, instruction, decoded, curve, search, history, threads>>

LayoutParse ==
    /\ op = "layout_parse"
    /\ codec.call = "none"
    /\ codec' = [call |-> "parse", result |-> NAME_PROGRAM_INSTRUCTIONS_LAYOUT_parse(params.buffer)]
    /\ UNCHANGED <<op, params, instruction, decoded, curve, search, history, threads>>

\* one candidate of the deriver: the input it hashes and the digest
CreateProgramAddress ==
    /\ op = "create_program_address"
    /\ codec.call = "none"
    /\ codec' = [call |-> "hash",
                 result |-> [ok |-> TRUE, err |-> "",
                             input |-> hash_input(params.seeds, params.bump, params.program_id),
                             digest |-> candidate(params.seeds, params.bump, params.program_id)]]
    /\ UNCHANGED <<op, params, instruction, decoded, curve, search, history, threads>>

\* a decoder is handed the instruction the builder returned, or one received
DecodeCreateName ==
    /\ instruction.status = "ok"
    /\ decoded.by = "none"
    /\ decoded' = decode_create_name(instruction)
    /\ UNCHANGED <<op, params, instruction, codec, curve, search, history, threads>>

DecodeMemoInstruction ==
    /\ instruction.status = "ok"
    /\ decoded.by = "none"
    /\ decoded' = decode_memo_instruction(instruction)
    /\ UNCHANGED <<op, params, instruction, codec, curve, search, history, threads>>

Next ==
    \/ CreateName
    \/ UpdateName
    \/ TransferName
    \/ DeleteName
    \/ MemoInstruction
    \/ LayoutBuild
    \/ LayoutParse
    \/ CreateProgramAddress
    \/ DecodeCreateName
    \/ DecodeMemoInstruction

Spec == Init /\ [][Next]_vars

(***************************************************************************)
(* Properties.                                                             *)
(***************************************************************************)
Called(name) == op = name /\ instruction.status # "none"

Built_ok(name) == op = name /\ instruction.status = "ok"

\* params every field of which fits the layout: a 32-byte hashed name,
\* lamports in 0..2^64-1, space in the u32 range
ValidCreate(p) == Len(p.hashed_name) = 32 /\ FitsU64(p.lamports) /\ FitsU32(p.space)

OptionalsDefault(p) ==
    /\ p.owner_account = None
    /\ p.class_account = SYS_PROGRAM_ID
    /\ p.parent_account = SYS_PROGRAM_ID
    /\ p.parent_owner_account = SYS_PROGRAM_ID

MissingParentOwner(p) ==
    p.parent_account # SYS_PROGRAM_ID /\ p.parent_owner_account = SYS_PROGRAM_ID

\* C1: for valid CreateNameParams with the optional fields at their defaults,
\* decode_create_name of the instruction create_name returned succeeds and
\* equals the params field for field.
C1_RoundTripDefaults ==
    (op = "create_name" /\ ValidCreate(params) /\ OptionalsDefault(params)
     /\ decoded.by = "decode_create_name")
        => decoded.status = "ok" /\ decoded.params = params

\* C2: for valid CreateNameParams with owner, class, parent or parent owner set
\* to a non-default address, decode_create_name(create_name(params)) succeeds
\* and returns the params, those fields recovered from the account list.
C2_RoundTripPositional ==
    (op = "create_name" /\ ValidCreate(params) /\ ~OptionalsDefault(params)
     /\ ~MissingParentOwner(params) /\ decoded.by = "decode_create_name")
        => decoded.status = "ok" /\ decoded.params = params

\* C3: the data create_name builds for a 32-byte hashed name H parses to the
\* Create discriminant, hashed_name_size 32, hashed_name H, the caller's
\* lamports and the caller's space.
C3_CreateDataFields ==
    Built_ok("create_name")
        => LET d == NAME_PROGRAM_INSTRUCTIONS_LAYOUT_parse(instruction.data)
           IN  /\ d.ok
               /\ d.instruction_type = CREATE
               /\ d.args.hashed_name_size = PyInt(32)
               /\ d.args.hashed_name = params.hashed_name
               /\ d.args.lamports = params.lamports
               /\ d.args.space = params.space

\* C4: the account list of every instruction create_name returns is, in order,
\* system program (non-signer, read-only), funding (signer, writable), the
\* derived name account (non-signer, writable), owner or else funding
\* (non-signer, read-only), class (signer iff non-default, read-only), parent
\* (non-signer, read-only), then parent owner (signer, read-only) iff the
\* parent is non-default: 7 entries iff the parent is non-default, else 6.
C4_CreateAccounts ==
    Built_ok("create_name")
        => LET k == instruction.keys
               p == params
               derived == find_program_address(
                              <<p.hashed_name, p.class_account, p.parent_account>>,
                              p.name_program_id)
           IN  /\ Len(k) = (IF p.parent_account # SYS_PROGRAM_ID THEN 7 ELSE 6)
               /\ k[1] = [pubkey |-> SYS_PROGRAM_ID, is_signer |-> FALSE, is_writable |-> FALSE]
               /\ k[2] = [pubkey |-> p.funding_account, is_signer |-> TRUE, is_writable |-> TRUE]
               /\ derived.ok
               /\ k[3] = [pubkey |-> derived.address, is_signer |-> FALSE, is_writable |-> TRUE]
               /\ k[4] = [pubkey |-> IF p.owner_account = None THEN p.funding_account
                                     ELSE p.owner_account,
                          is_signer |-> FALSE, is_writable |-> FALSE]
               /\ k[5] = [pubkey |-> p.class_account,
                          is_signer |-> (p.class_account # SYS_PROGRAM_ID),
                          is_writable |-> FALSE]
               /\ k[6] = [pubkey |-> p.parent_account, is_signer |-> FALSE, is_writable |-> FALSE]
               /\ Len(k) = 7
                    => k[7] = [pubkey |-> p.parent_owner_account, is_signer |-> TRUE,
                               is_writable |-> FALSE]

C4_Witness ==
    /\ Built_ok("create_name")
    /\ Len(instruction.keys) = 7
    /\ params.class_account # SYS_PROGRAM_ID
    /\ params.owner_account # None

\* C5: create_name of valid params with a non-default parent and a default
\* parent owner always raises the ValueError of the constraint and returns no
\* instruction; with a default parent, or with both non-default, that error is
\* never raised.
C5_ConstraintError ==
    (Called("create_name") /\ ValidCreate(params))
        => IF MissingParentOwner(params)
           THEN instruction.status = "raised" /\ instruction.error = "ValueError"
           ELSE ~(instruction.status = "raised" /\ instruction.error = "ValueError")

\* C6: update_name of params whose offset fits its field returns exactly the
\* references (name_account, non-signer, writable), (name_update_signer,
\* signer, read-only), and data that parses to the Update discriminant, the
\* given offset, size = len(input_data) and the input_data unchanged.
C6_UpdateInstruction ==
    (Called("update_name") /\ FitsU32(params.offset))
        => /\ instruction.status = "ok"
           /\ instruction.keys =
                <<[pubkey |-> params.name_account, is_signer |-> FALSE, is_writable |-> TRUE],
                  [pubkey |-> params.name_update_signer, is_signer |-> TRUE,
                   is_writable |-> FALSE]>>
           /\ LET d == NAME_PROGRAM_INSTRUCTIONS_LAYOUT_parse(instruction.data)
              IN  /\ d.ok
                  /\ d.instruction_type = UPDATE
                  /\ d.args.offset = params.offset
                  /\ d.args.size = PyInt(Len(params.input_data))
                  /\ d.args.input_data = params.input_data

C6_Witness ==
    /\ Built_ok("update_name")
    /\ Len(params.input_data) = 2
    /\ params.offset = PyInt(4)

\* C7: transfer_name returns, for every TransferNameParams, an instruction with
\* the references (name_account, non-signer, writable), (owner, signer,
\* read-only) and, iff the class is non-default, (class, signer, read-only),
\* and with data = the Transfer discriminant followed by the 32 bytes of new_owner.
C7_TransferInstruction ==
    Called("transfer_name")
        => /\ instruction.status = "ok"
           /\ instruction.keys =
                <<[pubkey |-> params.name_account, is_signer |-> FALSE, is_writable |-> TRUE],
                  [pubkey |-> params.owner_account, is_signer |-> TRUE, is_writable |-> FALSE]>>
                \o (IF params.class_account # SYS_PROGRAM_ID
                    THEN <<[pubkey |-> params.class_account, is_signer |-> TRUE,
                            is_writable |-> FALSE]>>
                    ELSE <<>>)
           /\ instruction.data = <<TRANSFER>> \o params.new_owner_account

\* C8: delete_name returns exactly the references (name_account, non-signer,
\* writable), (owner, signer, read-only), (refund, non-signer, writable), the
\* refund account being the owner when unspecified, and data that is the
\* Delete discriminant alone.
C8_DeleteInstruction ==
    Called("delete_name")
        => /\ instruction.status = "ok"
           /\ instruction.keys =
                <<[pubkey |-> params.name_account, is_signer |-> FALSE, is_writable |-> TRUE],
                  [pubkey |-> params.owner_account, is_signer |-> TRUE, is_writable |-> FALSE],
                  [pubkey |-> IF params.refund_account = None THEN params.owner_account
                              ELSE params.refund_account,
                   is_signer |-> FALSE, is_writable |-> TRUE]>>
           /\ instruction.data = <<DELETE>>

C8_Witness ==
    /\ Built_ok("delete_name")
    /\ params.refund_account = None
    /\ Len(instruction.keys) = 3

\* C9: memo_instruction returns an instruction whose data is exactly the
\* message, whose program id is params.memo_program_id and whose account list
\* is the single reference (signer, signer, writable).
C9_MemoInstruction ==
    Called("memo_instruction")
        => /\ instruction.status = "ok"
           /\ instruction.data = params.message
           /\ instruction.program_id = params.memo_program_id
           /\ instruction.keys =
                <<[pubkey |-> params.signer, is_signer |-> TRUE, is_writable |-> TRUE]>>

C9_Witness ==
    /\ Built_ok("memo_instruction")
    /\ Len(params.message) = 2
    /\ instruction.data = params.message

\* C10: decode_memo_instruction(memo_instruction(p)) succeeds and equals p.
C10_MemoRoundTrip ==
    (op = "memo_instruction" /\ decoded.by = "decode_memo_instruction")
        => decoded.status = "ok" /\ decoded.params = params

(***************************************************************************)
(* The address deriver, step by step.  A caller makes up to MaxCalls calls *)
(* of get_name_account_address, one after the other, and any builder,      *)
(* decoder or codec call between two of them (op is the call the caller    *)
(* made last).  A call runs to completion   *)
(* before the next one starts (the library has no threads and never        *)
(* suspends).  The search computes the candidate of a bump (one hash       *)
(* attempt), then tests it against the curve.  The curve is any of the     *)
(* four oracles, fixed for the behaviour.                                  *)
(***************************************************************************)
MaxCalls == 2

CurveOracles == {"sample", "dense", "every", "never"}

DeriveParams(h, class, parent, program_id) ==
    CreateNameParams(Key(1), h, PyInt(123), PyInt(10), None, class, parent,
                     IF parent = SYS_PROGRAM_ID THEN SYS_PROGRAM_ID ELSE Key(2), program_id)

DeriveCreates ==
    {DeriveParams(SampleName, SYS_PROGRAM_ID, SYS_PROGRAM_ID, DEVNET_NAME_PROGRAM_ID),
     DeriveParams(get_hashed_name(<<>>, <<98, 99>>), Key(1), Key(2), DEVNET_NAME_PROGRAM_ID)}

\* the seeds create_name derives from, the same seeds in another order and
\* under another program id
DeriveInputs ==
    {<<<<SampleName, SYS_PROGRAM_ID, SYS_PROGRAM_ID>>, DEVNET_NAME_PROGRAM_ID>>,
     <<<<SYS_PROGRAM_ID, SYS_PROGRAM_ID, SampleName>>, DEVNET_NAME_PROGRAM_ID>>,
     <<<<SampleName, SYS_PROGRAM_ID, SYS_PROGRAM_ID>>, MAINNET_NAME_PROGRAM_ID>>}

DeriveCalls ==
    ({"create_name"} \X DeriveCreates)
    \cup {<<"update_name", UpdateNameParams(Key(1), PyInt(4), <<1, 2>>, Key(2), DEVNET_NAME_PROGRAM_ID)>>,
          <<"transfer_name", TransferNameParams(Key(1), Key(2), Key(1), SYS_PROGRAM_ID, DEVNET_NAME_PROGRAM_ID)>>,
          <<"delete_name", DeleteNameParams(Key(1), Key(2), None, DEVNET_NAME_PROGRAM_ID)>>,
          <<"memo_instruction", MemoParams(Key(1), <<1, 2>>, MEMO_PROGRAM)>>,
          <<"layout_parse", [buffer |-> CreatePayload]>>,
          <<"layout_build", [instruction_type |-> TRANSFER, args |-> [new_owner |-> Key(2)]]>>}

DeriveInit ==
    /\ op = "derive"
    /\ params = NoParams
    /\ instruction = NoInstruction
    /\ decoded = NotDecoded
    /\ codec = NoCodec
    /\ curve \in CurveOracles
    /\ search = Idle
    /\ history = <<>>
    /\ threads = <<>>

\* the caller turns to another call of the library
NextCall ==
    /\ search.pc = "idle"
    /\ \E c \in DeriveCalls :
          /\ op' = c[1]
          /\ params' = c[2]
    /\ instruction' = NoInstruction
    /\ decoded' = NotDecoded
    /\ codec' = NoCodec
    /\ UNCHANGED <<curve, search, history, threads>>

\* get_name_account_address(seeds, program_id) enters find_program_address,
\* which starts its bump counter at 255, whatever was derived before
DeriveStart_stale ==
    /\ search.pc = "idle"
    /\ Len(history) < MaxCalls
    /\ \E c \in DeriveInputs :
          /\ params' = [seeds |-> c[1], program_id |-> c[2]]
          /\ search' = [pc |-> "search", seeds |-> c[1], program_id |-> c[2],
                        bump |-> IF history = <<>> \/ history[Len(history)].bump < 0
                                 THEN 255 ELSE history[Len(history)].bump,
                        attempts |-> 0, digest |-> None, address |-> None]
    /\ op' = "derive"
    /\ instruction' = NoInstruction
    /\ decoded' = NotDecoded
    /\ codec' = NoCodec
    /\ UNCHANGED <<curve, history, threads>>

DeriveStart ==
    /\ search.pc = "idle"
    /\ Len(history) < MaxCalls
    /\ \E c \in DeriveInputs :
          /\ params' = [seeds |-> c[1], program_id |-> c[2]]
          /\ search' = [pc |-> "search", seeds |-> c[1], program_id |-> c[2],
                        bump |-> 255,
                        attempts |-> 0, digest |-> None, address |-> None]
    /\ op' = "derive"
    /\ instruction' = NoInstruction
    /\ decoded' = NotDecoded
    /\ codec' = NoCodec
    /\ UNCHANGED <<curve, history, threads>>

Candidate == candidate(search.seeds, search.bump, search.program_id)

U == <<op, params, instruction, decoded, codec, curve, history, threads>>

\* one hash attempt: the candidate of the current bump
DeriveHash ==
    /\ search.pc = "search"
    /\ search.bump >= 0
    /\ search' = [search EXCEPT !.pc = "test", !.digest = Candidate, !.attempts = @ + 1]
    /\ UNCHANGED U

\* a search that steps over every other bump
DeriveTry_skipping ==
    /\ search.pc = "test"
    /\ is_on_curve(search.digest)
    /\ search' = [search EXCEPT !.pc = "search", !.bump = @ - 2]
    /\ UNCHANGED U

\* the candidate is a point of the curve: rejected, on to the next bump
DeriveTry ==
    /\ search.pc = "test"
    /\ is_on_curve(search.digest)
    /\ search' = [search EXCEPT !.pc = "search", !.bump = @ - 1]
    /\ UNCHANGED U

\* a search that takes the first candidate it computes
DeriveAccept_any ==
    /\ search.pc = "test"
    /\ search' = [search EXCEPT !.pc = "done", !.address = search.digest]
    /\ UNCHANGED U

\* the candidate is off the curve: it is the address
DeriveAccept ==
    /\ search.pc = "test"
    /\ ~is_on_curve(search.digest)
    /\ search' = [search EXCEPT !.pc = "done", !.address = search.digest]
    /\ UNCHANGED U

\* a search that falls back on the candidate of bump 0
DeriveExhausted_fallback ==
    /\ search.pc = "search"
    /\ search.bump < 0
    /\ search' = [search EXCEPT !.pc = "done",
                                !.address = candidate(search.seeds, 0, search.program_id)]
    /\ UNCHANGED U

\* no bump is left: the fatal derivation failure
DeriveExhausted ==
    /\ search.pc = "search"
    /\ search.bump < 0
    /\ search' = [search EXCEPT !.pc = "failed"]
    /\ UNCHANGED U

\* the call returns (or raises) to the caller
DeriveReturn ==
    /\ search.pc \in {"done", "failed"}
    /\ history' = Append(history,
                         [seeds |-> search.seeds, program_id |-> search.program_id,
                          ok |-> search.pc = "done", address |-> search.address,
                          bump |-> search.bump, attempts |-> search.attempts])
    /\ search' = Idle
    /\ UNCHANGED <<op, params, instruction, decoded, codec, curve, threads>>

DeriveStep == DeriveHash \/ DeriveTry \/ DeriveAccept \/ DeriveExhausted \/ DeriveReturn

DeriveNext ==
    \/ search.pc = "idle" /\ CreateName
    \/ search.pc = "idle" /\ UpdateName
    \/ search.pc = "idle" /\ TransferName
    \/ search.pc = "idle" /\ DeleteName
    \/ search.pc = "idle" /\ MemoInstruction
    \/ search.pc = "idle" /\ LayoutBuild
    \/ search.pc = "idle" /\ LayoutParse
    \/ search.pc = "idle" /\ DecodeCreateName
    \/ search.pc = "idle" /\ DecodeMemoInstruction
    \/ NextCall
    \/ DeriveStart
    \/ DeriveHash
    \/ DeriveTry
    \/ DeriveAccept
    \/ DeriveExhausted
    \/ DeriveReturn

DeriveSpec == DeriveInit /\ [][DeriveNext]_vars

\* a started call is not abandoned: the loop runs on until it returns
FairDeriveSpec == DeriveSpec /\ WF_<<search, history>>(DeriveStep)

(***************************************************************************)
(* Several threads.  Each of NumThreads threads makes one call, and the    *)
(* statements of the calls interleave in any order.  A call keeps what it  *)
(* computes in its own locals (data, pda); the library has no module-level *)
(* variable that a call writes.                                            *)
(***************************************************************************)
NumThreads == 2

NotBuilt == Raised("")

NoAddress == [ok |-> FALSE, err |-> "", address |-> None, bump |-> -1]

Builders == {"create_name", "update_name", "transfer_name", "delete_name"}

ThreadCalls ==
    ({"create_name"} \X
        (DeriveCreates \cup
         {CreateNameParams(Key(1), SampleName, PyInt(0), PyInt(10), None, SYS_PROGRAM_ID,
                           Key(2), SYS_PROGRAM_ID, DEVNET_NAME_PROGRAM_ID)}))
    \cup {<<"update_name", UpdateNameParams(Key(1), PyInt(4), <<1, 2>>, Key(2), DEVNET_NAME_PROGRAM_ID)>>,
          <<"update_name", UpdateNameParams(Key(1), PyAdd(U32_MAX, 1), <<1>>, Key(2), DEVNET_NAME_PROGRAM_ID)>>,
          <<"transfer_name", TransferNameParams(Key(1), Key(2), Key(1), SYS_PROGRAM_ID, DEVNET_NAME_PROGRAM_ID)>>,
          <<"transfer_name", TransferNameParams(Key(1), Key(2), Key(1), Key(2), DEVNET_NAME_PROGRAM_ID)>>,
          <<"delete_name", DeleteNameParams(Key(1), Key(2), None, DEVNET_NAME_PROGRAM_ID)>>,
          <<"get_name_account_address",
            [seeds |-> <<SampleName, SYS_PROGRAM_ID, SYS_PROGRAM_ID>>,
             program_id |-> DEVNET_NAME_PROGRAM_ID]>>}
    \cup ({"decode_create_name"} \X
            {TransactionInstruction(ReceivedKeys(n), DEVNET_NAME_PROGRAM_ID, d) :
                n \in {5, 6}, d \in {CreatePayload, <<UPDATE>>, TransferPayload}})

Thread(c) ==
    [call |-> c[1], params |-> c[2], given |-> c[2], pc |-> "start",
     data |-> NotBuilt, pda |-> NoAddress, result |-> NoParams]

ThreadInit ==
    /\ op = "threads"
    /\ params = NoParams
    /\ instruction = NoInstruction
    /\ decoded = NotDecoded
    /\ codec = NoCodec
    /\ curve = "sample"
    /\ search = Idle
    /\ history = <<>>
    /\ threads \in [1..NumThreads -> {Thread(c) : c \in ThreadCalls}]

V == <<op, params, instruction, decoded, codec, curve, search, history>>

\* the payload a builder encodes from its params
encode(call, p) ==
    CASE call = "create_name" -> create_name_data(p)
      [] call = "update_name" -> update_name_data(p)
      [] call = "transfer_name" -> transfer_name_data(p)
      [] call = "delete_name" -> delete_name_data(p)

\* the rest of a builder, from the payload and the derived address on
finish(call, p, data, pda) ==
    CASE call = "create_name" ->
            IF p.parent_account # SYS_PROGRAM_ID /\ p.parent_owner_account = SYS_PROGRAM_ID
            THEN Raise("ValueError")
            ELSE TransactionInstruction(create_name_keys(p, pda.address),
                                        p.name_program_id, data.bytes)
      [] call = "update_name" ->
            TransactionInstruction(update_name_keys(p), p.name_program_id, data.bytes)
      [] call = "transfer_name" ->
            IF p.class_account # SYS_PROGRAM_ID THEN Raise("AttributeError")
            ELSE TransactionInstruction(<<AccountMeta(p.name_account, FALSE, TRUE),
                                          AccountMeta(p.owner_account, TRUE, FALSE)>>,
                                        p.name_program_id, data.bytes)
      [] call = "delete_name" ->
            TransactionInstruction(delete_name_keys(p), p.name_program_id, data.bytes)
      [] call = "get_name_account_address" -> pda
      [] call = "decode_create_name" ->
            IF ~validate_instruction_type(data, CREATE)
            THEN DecodeRaised("decode_create_name", "ValueError")
            ELSE Returned("decode_create_name",
                          CreateNameParams(p.keys[2].pubkey, data.args.hashed_name,
                                           data.args.lamports, data.args.space,
                                           None, SYS_PROGRAM_ID, SYS_PROGRAM_ID,
                                           SYS_PROGRAM_ID, p.program_id))

Done(th, r) == [th EXCEPT !.pc = "done", !.result = r]

\* an encoder that leaves the payload in a buffer of the module, which is
\* the first thread's
ThreadEncode_shared(t) ==
    /\ threads[t].pc = "start"
    /\ threads[t].call \in Builders
    /\ LET data == encode(threads[t].call, threads[t].params)
       IN  threads' = [threads EXCEPT ![1].data = data,
                                      ![t].pc = IF data.ok THEN "encoded" ELSE "done",
                                      ![t].result = IF data.ok THEN @ ELSE Raise(data.err)]
    /\ UNCHANGED V

\* data = NAME_PROGRAM_INSTRUCTIONS_LAYOUT.build(...)
ThreadEncode(t) ==
    /\ threads[t].pc = "start"
    /\ threads[t].call \in Builders
    /\ LET data == encode(threads[t].call, threads[t].params)
       IN  threads' = [threads EXCEPT ![t] =
                          IF data.ok THEN [@ EXCEPT !.pc = "encoded", !.data = data]
                          ELSE Done(@, Raise(data.err))]
    /\ UNCHANGED V

\* validate_instruction_keys, then NAME_PROGRAM_INSTRUCTIONS_LAYOUT.parse
ThreadParse(t) ==
    /\ threads[t].pc = "start"
    /\ threads[t].call = "decode_create_name"
    /\ LET ins == threads[t].params
           data == NAME_PROGRAM_INSTRUCTIONS_LAYOUT_parse(ins.data)
       IN  threads' = [threads EXCEPT ![t] =
                          IF ~validate_instruction_keys(ins, 6)
                          THEN Done(@, DecodeRaised("decode_create_name", "ValueError"))
                          ELSE IF ~data.ok
                          THEN Done(@, DecodeRaised("decode_create_name", data.err))
                          ELSE [@ EXCEPT !.pc = "encoded", !.data = data]]
    /\ UNCHANGED V

\* PublicKey.find_program_address(seeds, program_id)
ThreadDerive(t) ==
    /\ \/ threads[t].call = "create_name" /\ threads[t].pc = "encoded"
       \/ threads[t].call = "get_name_account_address" /\ threads[t].pc = "start"
    /\ LET p == threads[t].params
           pda == IF threads[t].call = "create_name"
                  THEN find_program_address(create_name_seeds(p), p.name_program_id)
                  ELSE find_program_address(p.seeds, p.program_id)
       IN  threads' = [threads EXCEPT ![t] =
                          IF pda.ok THEN [@ EXCEPT !.pc = "derived", !.pda = pda]
                          ELSE Done(@, Raise(pda.err))]
    /\ UNCHANGED V

\* the remaining statements, up to the return
ThreadFinish(t) ==
    /\ \/ threads[t].call \in {"create_name", "get_name_account_address"}
            /\ threads[t].pc = "derived"
       \/ threads[t].call \notin {"create_name", "get_name_account_address"}
            /\ threads[t].pc = "encoded"
    /\ threads' = [threads EXCEPT ![t] =
                      Done(@, finish(@.call, @.params, @.data, @.pda))]
    /\ UNCHANGED V

ThreadNext ==
    \E t \in 1..NumThreads :
        \/ ThreadEncode(t)
        \/ ThreadParse(t)
        \/ ThreadDerive(t)
        \/ ThreadFinish(t)

ThreadSpec == ThreadInit /\ [][ThreadNext]_vars

\* what the call returns when it runs alone
alone(call, p) ==
    CASE call = "create_name" -> create_name(p)
      [] call = "update_name" -> update_name(p)
      [] call = "transfer_name" -> transfer_name(p)
      [] call = "delete_name" -> delete_name(p)
      [] call = "get_name_account_address" -> find_program_address(p.seeds, p.program_id)
      [] call = "decode_create_name" -> decode_create_name(p)

(***************************************************************************)
(* The decode path, the layout codec on its own, the signer flags and the  *)
(* order of the checks in create_name.                                     *)
(***************************************************************************)
DecodedCreate == decoded.by = "decode_create_name"

\* the discriminant an instruction carries, -1 when its data is empty
Discriminant(ins) == IF Len(ins.data) = 0 THEN -1 ELSE ins.data[1]

Expected(ins, count, type) == Len(ins.keys) = count /\ Discriminant(ins) = type

\* C13: decode_create_name returns params only for an instruction with
\* exactly 6 account references and the Create discriminant; for every other
\* instruction it raises the validation error (ValueError) and returns no
\* params.
C13_ValidatorRejects ==
    DecodedCreate =>
        /\ decoded.status = "ok" => Expected(instruction, 6, CREATE)
        /\ ~Expected(instruction, 6, CREATE)
               => /\ decoded.status = "raised"
                  /\ decoded.error = "ValueError"
                  /\ decoded.params = NoParams

ParseCalled == op = "layout_parse" /\ codec.call = "parse"

BuildCalled == op = "layout_build" /\ codec.call = "build"

KnownTypes == {CREATE, UPDATE, TRANSFER, DELETE}

\* C14: parsing a buffer whose first byte is none of 0, 1, 2, 3 raises a
\* decoding error and never returns a parsed container.
C14_UnknownDiscriminant ==
    (ParseCalled /\ Len(params.buffer) > 0 /\ params.buffer[1] \notin KnownTypes)
        => ~codec.result.ok /\ codec.result.err = "StreamError"

\* the declared size of an Update buffer long enough to hold one
DeclaredSize(b) == IntUl_parse(SubSeq(b, 6, 9))

\* a buffer shorter than the minimum of its variant
TooShort(b) ==
    \/ Len(b) = 0
    \/ b[1] = CREATE /\ Len(b) < 1 + 4 + 32 + 8 + 4
    \/ b[1] = UPDATE /\ Len(b) < 1 + 4 + 4
    \/ b[1] = UPDATE /\ Len(b) >= 9
         /\ (Len(DeclaredSize(b).mag) > 2 \/ Len(b) < 9 + Small(DeclaredSize(b).mag))
    \/ b[1] = TRANSFER /\ Len(b) < 1 + 32

\* every byte field of a parsed container is a slice of the buffer
WithinBuffer(b, r) ==
    CASE r.args.layout = "create" -> r.args.hashed_name = SubSeq(b, 6, 37) /\ Len(b) >= 49
      [] r.args.layout = "update" ->
            /\ PyInt(Len(r.args.input_data)) = r.args.size
            /\ Len(b) >= 9 + Len(r.args.input_data)
            /\ r.args.input_data = SubSeq(b, 10, 9 + Len(r.args.input_data))
      [] r.args.layout = "transfer" -> r.args.new_owner = SubSeq(b, 2, 33) /\ Len(b) >= 33
      [] OTHER -> TRUE

\* C15: parsing a buffer shorter than the minimum of its variant (empty;
\* Create under 49 bytes; Update under 9 + size bytes; Transfer under 33
\* bytes) raises the decoding error, and no parsed field holds bytes from
\* beyond the end of the buffer.
C15_ShortBuffer ==
    ParseCalled =>
        /\ TooShort(params.buffer) => ~codec.result.ok /\ codec.result.err = "StreamError"
        /\ codec.result.ok => WithinBuffer(params.buffer, codec.result)

C15_Witness ==
    /\ ParseCalled
    /\ Len(params.buffer) = 10
    /\ params.buffer[1] = UPDATE
    /\ DeclaredSize(params.buffer) = PyInt(2)
    /\ ~codec.result.ok

\* a byte field of the object that does not fit its schema
MisfitBytes(obj) ==
    \/ obj.instruction_type = CREATE /\ Len(obj.args.hashed_name) # 32
    \/ obj.instruction_type = TRANSFER /\ Len(obj.args.new_owner) # 32
    \/ obj.instruction_type = UPDATE /\ obj.args.size # PyInt(Len(obj.args.input_data))

EncodingErrors == {"StreamError", "FormatFieldError"}

\* C16: building a payload whose hashed_name or new_owner is not 32 bytes
\* long, or whose Update size differs from len(input_data), raises an
\* encoding error and emits no bytes; create_name of a hashed_name that is
\* not 32 bytes long raises it and returns no instruction.
C16_MisfitRejected ==
    /\ (BuildCalled /\ MisfitBytes(params))
          => /\ ~codec.result.ok
             /\ codec.result.err \in EncodingErrors
             /\ codec.result.bytes = <<>>
    /\ (Called("create_name") /\ Len(params.hashed_name) # 32)
          => instruction.status = "raised" /\ instruction.error \in EncodingErrors

C16_Witness ==
    /\ BuildCalled
    /\ params.instruction_type = TRANSFER
    /\ Len(params.args.new_owner) = 33
    /\ ~codec.result.ok

SignerAt(i, pubkey) ==
    instruction.keys[i].is_signer /\ instruction.keys[i].pubkey = pubkey

\* the positions of the signers of the instruction
Signers == {i \in 1..Len(instruction.keys) : instruction.keys[i].is_signer}

\* C17: in every instruction a builder returns the signers are exactly the
\* funding account, the class account when non-default and the parent owner
\* when the parent is non-default (create); the update signer (update); the
\* owner and the class account when non-default (transfer); the owner
\* (delete); the message author (memo).  No other reference is a signer.
C17_SignerFlags ==
    /\ Built_ok("create_name") =>
          /\ Signers = {2} \cup (IF params.class_account # SYS_PROGRAM_ID THEN {5} ELSE {})
                            \cup (IF params.parent_account # SYS_PROGRAM_ID THEN {7} ELSE {})
          /\ SignerAt(2, params.funding_account)
          /\ 5 \in Signers => SignerAt(5, params.class_account)
          /\ 7 \in Signers => SignerAt(7, params.parent_owner_account)
    /\ Built_ok("update_name") =>
          Signers = {2} /\ SignerAt(2, params.name_update_signer)
    /\ Built_ok("transfer_name") =>
          /\ Signers = {2} \cup (IF params.class_account # SYS_PROGRAM_ID THEN {3} ELSE {})
          /\ SignerAt(2, params.owner_account)
          /\ 3 \in Signers => SignerAt(3, params.class_account)
    /\ Built_ok("delete_name") =>
          Signers = {2} /\ SignerAt(2, params.owner_account)
    /\ Built_ok("memo_instruction") =>
          Signers = {1} /\ SignerAt(1, params.signer)

C17_Witness ==
    /\ Built_ok("create_name")
    /\ Signers = {2, 5, 7}
    /\ instruction.keys[4].pubkey = params.funding_account

\* C20: create_name of params with a non-default parent and a default parent
\* owner raises the ValueError of the constraint whatever the other fields
\* hold: the check comes before the payload is built and before the address
\* is derived.
C20_CheckedFirst ==
    (Called("create_name") /\ MissingParentOwner(params))
        => instruction.status = "raised" /\ instruction.error = "ValueError"

(***************************************************************************)
(* The address deriver.                                                    *)
(***************************************************************************)
Returns == 1..Len(history)

SameInputs(a, b) == a.seeds = b.seeds /\ a.program_id = b.program_id

SameResult(a, b) == a.ok = b.ok /\ a.address = b.address /\ a.bump = b.bump

\* the derive call inside create_name, as a call of the deriver
CreateDerive == [seeds |-> create_name_seeds(params), program_id |-> params.name_program_id]

\* C11: two calls of the deriver with the same ordered seeds and the same
\* program id return the same address and the same bump, whatever was
\* derived, built, encoded or decoded between them; the address create_name
\* puts in its instruction is the one a direct call returns.
C11_Deterministic ==
    /\ \A i, j \in Returns :
          SameInputs(history[i], history[j]) => SameResult(history[i], history[j])
    /\ Built_ok("create_name") =>
          \A i \in Returns :
              SameInputs(history[i], CreateDerive)
                  => history[i].ok /\ history[i].address = instruction.keys[3].pubkey

C11_Witness ==
    /\ Len(history) = 2
    /\ SameInputs(history[1], history[2])
    /\ history[1].ok
    /\ history[1].bump < 255
    /\ Built_ok("create_name")
    /\ SameInputs(history[2], CreateDerive)

\* C12: every address the deriver returns is off the curve, in a direct
\* call and inside create_name; a candidate that is a point of the curve is
\* never returned.
C12_OffCurve ==
    /\ search.pc = "done" => ~is_on_curve(search.address)
    /\ \A i \in Returns : history[i].ok => ~is_on_curve(history[i].address)
    /\ Built_ok("create_name") => ~is_on_curve(instruction.keys[3].pubkey)

C12_Witness ==
    /\ search.pc = "done"
    /\ search.bump < 255
    /\ is_on_curve(candidate(search.seeds, 255, search.program_id))
    /\ search.address # candidate(search.seeds, 255, search.program_id)

\* C18: the bump returned is the greatest of 0..255 whose candidate is off
\* the curve (every greater bump was tried and rejected, 255 first), and the
\* address returned is the candidate of that bump; the search create_name
\* runs returns the same.
C18_GreatestBump ==
    /\ search.pc = "done" =>
          /\ search.bump \in 0..255
          /\ search.address = Candidate
          /\ ~is_on_curve(Candidate)
          /\ \A b \in (search.bump + 1)..255 :
                is_on_curve(candidate(search.seeds, b, search.program_id))
          /\ search.attempts = 256 - search.bump
          /\ find_program_address(search.seeds, search.program_id).ok
          /\ find_program_address(search.seeds, search.program_id).bump = search.bump
          /\ find_program_address(search.seeds, search.program_id).address = search.address
    /\ search.pc = "search" => search.attempts = 255 - search.bump
    /\ search.pc = "test" => search.attempts = 256 - search.bump /\ search.digest = Candidate
    /\ \A i \in Returns :
          history[i].ok =>
              history[i].address
                  = candidate(history[i].seeds, history[i].bump, history[i].program_id)

C18_Witness ==
    /\ search.pc = "done"
    /\ search.bump < 254
    /\ search.attempts > 2

\* a bounded search: the counter stays in -1..255, an attempt is made for
\* each bump at most, and the failure carries no address
BoundedSearch ==
    /\ search.bump \in -1..255
    /\ search.attempts \in 0..256
    /\ search.pc \in {"search", "test"} => search.address = None
    /\ search.pc = "test" => search.bump >= 0
    /\ search.pc = "done" => search.bump >= 0 /\ search.address # None
    /\ search.pc = "failed" =>
          /\ search.bump = -1
          /\ search.attempts = 256
          /\ search.address = None
          /\ \A b \in 0..255 : is_on_curve(candidate(search.seeds, b, search.program_id))
    /\ \A i \in Returns :
          /\ history[i].attempts <= 256
          /\ ~history[i].ok => history[i].address = None /\ history[i].bump = -1

\* C19: a search that has started ends, after at most 256 attempts, with an
\* off-curve address and its bump or, when the candidate of every bump in
\* 0..255 is a point of the curve, with the derivation failure; the counter
\* never passes below -1 (no attempt is made below bump 0), never wraps, and
\* the failure returns no address.
C19_Terminates ==
    /\ []BoundedSearch
    /\ (search.pc \in {"search", "test"}) ~> (search.pc \in {"done", "failed"})

C19_Witness ==
    /\ search.pc = "failed"
    /\ search.attempts = 256

(***************************************************************************)
(* The order of the checks on the decode path.                             *)
(***************************************************************************)
\* the instruction carries a type tag, and it is not the expected one
WrongTag(ins, type) == Len(ins.data) > 0 /\ ins.data[1] # type

\* C21: decode_create_name of an instruction whose reference count is not 6,
\* or whose leading type tag is not Create, raises the validation error
\* (ValueError) whatever bytes follow the tag, never a decoding error, and
\* returns no params.
C21_ValidatedFirst ==
    (DecodedCreate /\ (Len(instruction.keys) # 6 \/ WrongTag(instruction, CREATE)))
        => /\ decoded.status = "raised"
           /\ decoded.error = "ValueError"
           /\ decoded.params = NoParams

(***************************************************************************)
(* The Update payload inside a larger buffer.                              *)
(***************************************************************************)
\* the buffer starts with a whole Update payload
HoldsUpdate(b) ==
    /\ Len(b) >= 1 + 4 + 4
    /\ b[1] = UPDATE
    /\ Len(DeclaredSize(b).mag) <= 2
    /\ Len(b) >= 9 + Small(DeclaredSize(b).mag)

\* that payload alone
UpdatePayloadOf(b) == SubSeq(b, 1, 9 + Small(DeclaredSize(b).mag))

\* C22: parsing a buffer that is an Update payload followed by any trailing
\* bytes returns the offset, the size and exactly size bytes of input_data,
\* the same container as parsing the payload alone.
C22_SizeField ==
    (ParseCalled /\ HoldsUpdate(params.buffer)) =>
        /\ codec.result.ok
        /\ codec.result.instruction_type = UPDATE
        /\ codec.result.args.offset = IntUl_parse(SubSeq(params.buffer, 2, 5))
        /\ codec.result.args.size = DeclaredSize(params.buffer)
        /\ PyInt(Len(codec.result.args.input_data)) = DeclaredSize(params.buffer)
        /\ codec.result.args.input_data
              = SubSeq(params.buffer, 10, 9 + Small(DeclaredSize(params.buffer).mag))
        /\ codec.result = NAME_PROGRAM_INSTRUCTIONS_LAYOUT_parse(UpdatePayloadOf(params.buffer))

C22_Witness ==
    /\ ParseCalled
    /\ HoldsUpdate(params.buffer)
    /\ DeclaredSize(params.buffer) = PyInt(1)
    /\ Len(params.buffer) = 12
    /\ codec.result.ok
    /\ Len(codec.result.args.input_data) = 1

(***************************************************************************)
(* The integer fields of a payload.                                        *)
(***************************************************************************)
\* an unsigned integer of w bytes can hold x
Fits(w, x) == ~x.neg /\ Len(x.mag) <= w

\* the integer fields of an object: <<width, value, position in the payload>>
IntFields(obj) ==
    CASE obj.instruction_type = CREATE ->
            {<<4, obj.args.hashed_name_size, 2>>, <<8, obj.args.lamports, 38>>,
             <<4, obj.args.space, 46>>}
      [] obj.instruction_type = UPDATE ->
            {<<4, obj.args.offset, 2>>, <<4, obj.args.size, 6>>}
      [] OTHER -> {}

PayloadLen(obj) ==
    CASE obj.instruction_type = CREATE -> 1 + 4 + 32 + 8 + 4
      [] obj.instruction_type = UPDATE -> 1 + 4 + 4 + Len(obj.args.input_data)
      [] obj.instruction_type = TRANSFER -> 1 + 32
      [] obj.instruction_type = DELETE -> 1

\* the bytes of a field are the little-endian digits of its value, zero
\* filled to the width
FieldHolds(bytes, f) ==
    /\ f[3] + f[1] - 1 <= Len(bytes)
    /\ Strip(SubSeq(bytes, f[3], f[3] + f[1] - 1)) = f[2].mag
    /\ ~f[2].neg

EncodingError(r) == r.status = "raised" /\ r.error \in EncodingErrors

\* the layout's build: payload lengths, field contents, rejection of misfits
LayoutIntegerFields ==
    (BuildCalled /\ params.instruction_type \in KnownTypes) =>
        /\ codec.result.ok =>
              /\ Len(codec.result.bytes) = PayloadLen(params)
              /\ \A f \in IntFields(params) : FieldHolds(codec.result.bytes, f)
        /\ (\E f \in IntFields(params) : ~Fits(f[1], f[2])) =>
              ~codec.result.ok /\ codec.result.err \in EncodingErrors

\* C23: a built payload is 49 bytes for Create, 9 + len(input_data) for
\* Update, 33 for Transfer and 1 for Delete, each integer field holding the
\* unsigned little-endian value given; an integer that does not fit its
\* field (lamports >= 2^64; space, offset or size >= 2^32; any negative
\* value) raises an encoding error, at the layout and in the builders.
C23_IntegerFields ==
    /\ LayoutIntegerFields
    /\ Called("create_name") =>
          /\ instruction.status = "ok" => Len(instruction.data) = 49
          /\ (~Fits(8, params.lamports) \/ ~Fits(4, params.space)) => EncodingError(instruction)
    /\ Called("update_name") =>
          /\ instruction.status = "ok" => Len(instruction.data) = 9 + Len(params.input_data)
          /\ ~Fits(4, params.offset) => EncodingError(instruction)
    /\ Built_ok("transfer_name") => Len(instruction.data) = 33
    /\ Built_ok("delete_name") => Len(instruction.data) = 1

(***************************************************************************)
(* The input of the seed hash.                                             *)
(***************************************************************************)
HashCalled == op = "create_program_address" /\ codec.call = "hash"

Count(ss, x) == Cardinality({i \in 1..Len(ss) : ss[i] = x})

\* the same seeds in another order
Reordered(a, b) ==
    /\ a # b
    /\ Len(a) = Len(b)
    /\ \A i \in 1..Len(a) : Count(a, a[i]) = Count(b, a[i])

EqualLengths(ss) == \A i, j \in 1..Len(ss) : Len(ss[i]) = Len(ss[j])

\* the hashed input is the seeds in the order given, the bump byte, the
\* program id and the domain separator
InputLayout ==
    HashCalled =>
        LET n == Len(codec.result.input)
            k == n - 32 - Len(PROGRAM_DERIVED_ADDRESS)
        IN  /\ k >= 1
            /\ SubSeq(codec.result.input, 1, k - 1) = Concat(params.seeds)
            /\ codec.result.input[k] = params.bump
            /\ SubSeq(codec.result.input, k + 1, k + 32) = params.program_id
            /\ SubSeq(codec.result.input, k + 33, n) = PROGRAM_DERIVED_ADDRESS
            /\ codec.result.digest = sha256(codec.result.input)

\* the name account of create_name is the candidate of the seeds
\* [hashed_name, class account, parent account]
CreateSeedOrder ==
    Built_ok("create_name") =>
        LET found == find_program_address(<<params.hashed_name, params.class_account,
                                            params.parent_account>>,
                                          params.name_program_id)
        IN  /\ found.ok
            /\ instruction.keys[3].pubkey
                  = sha256(params.hashed_name \o params.class_account \o params.parent_account
                           \o <<found.bump>> \o params.name_program_id
                           \o PROGRAM_DERIVED_ADDRESS)

\* C25 as stated: the hashed input is seeds in the order given, bump byte,
\* program id, domain separator; create_name gives [hashed_name, class,
\* parent]; and any two seed lists that differ only in order are hashed as
\* different inputs.
C25_SeedOrder ==
    /\ InputLayout
    /\ CreateSeedOrder
    /\ HashCalled =>
          \A other \in SeedLists :
              Reordered(other, params.seeds)
                  => hash_input(other, params.bump, params.program_id) # codec.result.input

\* C25 amended: the same, the last part for seed lists whose seeds all have
\* one length (as the three 32-byte seeds of create_name have): two such
\* lists that differ only in order are hashed as different inputs.
C25_SeedOrderEqualLengths ==
    /\ InputLayout
    /\ CreateSeedOrder
    /\ (HashCalled /\ EqualLengths(params.seeds)) =>
          \A other \in SeedLists :
              Reordered(other, params.seeds)
                  => hash_input(other, params.bump, params.program_id) # codec.result.input

C25_Witness ==
    /\ HashCalled
    /\ params.seeds = <<SampleName, Key(1), Key(2)>>
    /\ params.bump = 254
    /\ Reordered(<<Key(1), SampleName, Key(2)>>, params.seeds)
    /\ hash_input(<<Key(1), SampleName, Key(2)>>, 254, params.program_id) # codec.result.input

(***************************************************************************)
(* Calls made by several threads at once.                                  *)
(***************************************************************************)
\* C24: whatever the interleaving of the threads' calls, every call that
\* has returned returned what it returns when run alone, and no call changed
\* the params it was given.
C24_Reentrant ==
    \A t \in DOMAIN threads :
        /\ threads[t].params = threads[t].given
        /\ threads[t].pc = "done"
              => threads[t].result = alone(threads[t].call, threads[t].given)

\* two create_name calls that ran interleaved: the second encoded between
\* the first one's encoding and its return
C24_Witness ==
    /\ Len(threads) >= 2
    /\ threads[1].call = "create_name"
    /\ threads[2].call = "create_name"
    /\ threads[1].given # threads[2].given
    /\ threads[1].pc = "derived"
    /\ threads[2].pc = "done"
    /\ threads[2].result.status = "ok"

====
